---- MODULE Spec2Model ----
(***************************************************************************)
(* State machine of the progress dashboard's central component             *)
(* (src/src/App.tsx, AppContent): the entity cascade school -> cohort ->   *)
(* student, the filter cascade curriculum -> collection -> course ->       *)
(* chapter, the two asynchronous fetches (school bundle, lesson records),  *)
(* the per-student aggregator (calculatedStudentMetrics), the resolver     *)
(* (currentAggregate) and the display projection of ProgressChart.         *)
(*                                                                         *)
(* React state setters called in one synchronous stretch of a handler are  *)
(* one atomic step; every `await` of a network call splits a handler into  *)
(* a step that issues the request and a step that runs when it settles.    *)
(***************************************************************************)
EXTENDS Integers, Sequences, FiniteSets, TLC

(***************************************************************************)
(* Bounds of the model.                                                    *)
(***************************************************************************)
\* requests (startup loads, access checks, bundle fetches, lesson fetches)
\* that may be outstanding at the same time
MaxInFlight == 2
\* longest record sequence drawn for the per-student aggregator
MaxRecords == 2

(***************************************************************************)
(* JavaScript values.                                                      *)
(***************************************************************************)
\* null of the `number | null` ids.  Every handler tests an id by its
\* truthiness (`!schoolId`, `selectedChapterId ? ...`) and the database ids
\* are serial keys starting at 1, so null and "falsy" coincide.
Null == 0
\* null of `error: string | null`
NoError == "<null>"
\* individualStudentData: null, or the body of the /api/student-data
\* response as response.json() parsed it (getIndividualStudentData returns it
\* unexamined): an array of lesson records, or a value that is not an array
NullData == [isNull |-> TRUE, isArray |-> FALSE, rows |-> <<>>]
ArrayData(rows) == [isNull |-> FALSE, isArray |-> TRUE, rows |-> rows]
NotAnArray == [isNull |-> FALSE, isArray |-> FALSE, rows |-> <<>>]
\* null result of calculatedStudentMetrics / currentAggregate
NoResult == [isNull |-> TRUE]

(***************************************************************************)
(* The data behind the API routes: a small database.  School 1 has two     *)
(* cohorts, one student in each, and fully populated materialized views;   *)
(* school 2 has no cohort and no student yet, and sparse school views.     *)
(***************************************************************************)
SchoolIds == {1, 2}
CohortIds == {1, 2}
StudentIds == {1, 2}

SchoolName(s) == IF s = 1 THEN "North" ELSE "South"
CohortName(c) == IF c = 1 THEN "Alpha" ELSE "Beta"
SchoolOfCohort(c) == 1
SchoolOfStudent(u) == 1
CohortOfStudent(u) == u

\* /api/schools
SchoolsTable ==
  << [id |-> 1, school_name |-> SchoolName(1)],
     [id |-> 2, school_name |-> SchoolName(2)] >>

\* /api/cohorts?schoolId=s
CohortsOf(s) ==
  IF s = 1
    THEN << [id |-> 1, cohort_name |-> CohortName(1)],
            [id |-> 2, cohort_name |-> CohortName(2)] >>
    ELSE << >>

\* /api/curriculum-hierarchy: the denormalised tree, one row per chapter
HierarchyRow(cu, co, cs, ch) ==
  [curriculum_id |-> cu, collection_id |-> co, course_id |-> cs, chapter_id |-> ch]
HierarchyTable ==
  << HierarchyRow(1, 1, 1, 1), HierarchyRow(1, 1, 2, 2) >>

CurriculumName(i) == IF i = 1 THEN "Clinical" ELSE "Basic"
CollectionName(i) == IF i = 1 THEN "Emergency" ELSE "Anatomy"
CourseName(i) == IF i = 1 THEN "Common" ELSE "Thorax"
ChapterName(i) == IF i = 1 THEN "ACS" ELSE "Stroke"

\* one row of a materialized view; n is the row's total_lessons_expected and
\* makes the rows of the fixture pairwise different
SchoolRow(s, n) ==
  [school_id |-> s, school_name |-> SchoolName(s),
   total_lessons_expected |-> n, total_lessons_completed |-> n - 1,
   required_lessons_expected |-> n - 2, required_lessons_completed |-> n - 3]
CohortRow(s, c, n) ==
  [school_id |-> s, cohort_id |-> c, cohort_name |-> CohortName(c),
   total_lessons_expected |-> n, total_lessons_completed |-> n - 1,
   required_lessons_expected |-> n - 2, required_lessons_completed |-> n - 3]
CurriculumRow(s, c, i, n) ==
  [school_id |-> s, cohort_id |-> c, curriculum_id |-> i,
   curriculum_name |-> CurriculumName(i),
   total_lessons_expected |-> n, total_lessons_completed |-> n - 1,
   required_lessons_expected |-> n - 2, required_lessons_completed |-> n - 3]
CollectionRow(s, c, i, n) ==
  [school_id |-> s, cohort_id |-> c, collection_id |-> i,
   collection_name |-> CollectionName(i),
   total_lessons_expected |-> n, total_lessons_completed |-> n - 1,
   required_lessons_expected |-> n - 2, required_lessons_completed |-> n - 3]
CourseRow(s, c, i, n) ==
  [school_id |-> s, cohort_id |-> c, course_id |-> i,
   course_name |-> CourseName(i),
   total_lessons_expected |-> n, total_lessons_completed |-> n - 1,
   required_lessons_expected |-> n - 2, required_lessons_completed |-> n - 3]
ChapterRow(s, c, i, n) ==
  [school_id |-> s, cohort_id |-> c, chapter_id |-> i,
   chapter_name |-> ChapterName(i),
   total_lessons_expected |-> n, total_lessons_completed |-> n - 1,
   required_lessons_expected |-> n - 2, required_lessons_completed |-> n - 3]
\* a row of mv_student_unfiltered_aggregates / of the cohort-student query
StudentRow(u) ==
  [student_id |-> u, student_email |-> "u@x", student_first |-> "F",
   student_last |-> "L", school_id |-> SchoolOfStudent(u),
   cohort_id |-> CohortOfStudent(u)]

StudentRowsOf(s) ==
  IF s = 1 THEN << StudentRow(1), StudentRow(2) >> ELSE << >>

\* /api/school-aggregates?schoolId=s: the twelve tables of the response, under
\* the keys the route gives them.  The cohort-scoped views hold the rows of
\* every cohort of the school (WHERE school_id = $1).
BundleOf(s) ==
  IF s = 1
    THEN [ schoolAggregate |-> << SchoolRow(1, 100) >>,
           curriculumAggregate |->
             << [ CurriculumRow(1, Null, 1, 60)
                    EXCEPT !.total_lessons_expected = 40,
                           !.total_lessons_completed = 23,
                           !.required_lessons_expected = 8,
                           !.required_lessons_completed = 1 ],
                CurriculumRow(1, Null, 2, 45) >>,
           schoolCollectionAggregate |->
             << CollectionRow(1, Null, 1, 61), CollectionRow(1, Null, 2, 41) >>,
           schoolCourseAggregate |->
             << CourseRow(1, Null, 1, 62), CourseRow(1, Null, 2, 42) >>,
           schoolChapterAggregate |->
             << ChapterRow(1, Null, 1, 33), ChapterRow(1, Null, 2, 27) >>,
           schoolStudentAggregate |-> StudentRowsOf(1),
           cohortAggregate |-> << CohortRow(1, 1, 50), CohortRow(1, 2, 70) >>,
           cohortCurriculumAggregate |->
             << CurriculumRow(1, 1, 1, 30), CurriculumRow(1, 2, 1, 35),
                CurriculumRow(1, 2, 2, 25) >>,
           cohortCollectionAggregate |->
             << CollectionRow(1, 1, 1, 31), CollectionRow(1, 2, 1, 36),
                CollectionRow(1, 2, 2, 26) >>,
           cohortCourseAggregate |->
             << CourseRow(1, 1, 1, 32), CourseRow(1, 2, 1, 37) >>,
           cohortChapterAggregate |->
             << ChapterRow(1, 1, 1, 13), ChapterRow(1, 2, 1, 17),
                ChapterRow(1, 2, 2, 19) >>,
           cohortStudentAggregate |-> StudentRowsOf(1) ]
    ELSE [ schoolAggregate |-> << SchoolRow(2, 200) >>,
           curriculumAggregate |-> << CurriculumRow(2, Null, 1, 90) >>,
           schoolCollectionAggregate |-> << CollectionRow(2, Null, 1, 91) >>,
           schoolCourseAggregate |-> << CourseRow(2, Null, 1, 92) >>,
           schoolChapterAggregate |-> << ChapterRow(2, Null, 2, 93) >>,
           schoolStudentAggregate |-> StudentRowsOf(2),
           cohortAggregate |-> << >>,
           cohortCurriculumAggregate |-> << >>,
           cohortCollectionAggregate |-> << >>,
           cohortCourseAggregate |-> << >>,
           cohortChapterAggregate |-> << >>,
           cohortStudentAggregate |-> StudentRowsOf(2) ]

\* one row of student_progress as /api/student-data returns it
LessonRecord(u, cu, co, cs, ch, req, done) ==
  [student_id |-> u, curriculum_id |-> cu, curriculum_name |-> CurriculumName(cu),
   collection_id |-> co, collection_name |-> CollectionName(co),
   course_id |-> cs, course_name |-> CourseName(cs),
   chapter_id |-> ch, chapter_name |-> ChapterName(ch),
   is_required |-> req,
   \* a timestamp string, or null (Null): only its truthiness is read
   completion_date |-> IF done THEN 1 ELSE Null]

\* /api/student-data?studentId=u
LessonsOf(u) ==
  IF u = 1
    THEN << LessonRecord(1, 1, 1, 1, 1, TRUE, TRUE),
            LessonRecord(1, 1, 1, 1, 1, TRUE, FALSE),
            LessonRecord(1, 1, 1, 2, 2, FALSE, TRUE) >>
    ELSE << LessonRecord(2, 1, 1, 1, 1, FALSE, FALSE) >>

(***************************************************************************)
(* State of AppContent (the useState cells) and the requests in flight.    *)
(***************************************************************************)
VARIABLES
  currentUser,            \* "none" | "supaadmin" | "guest" (isAuthenticated iff not "none")
  schools,                \* school list of the SchoolSelector
  curriculumHierarchy,    \* hierarchy rows; <<>> while not loaded
  selectedSchoolId, selectedCohortId, selectedStudentId,
  individualStudentData,
  schoolAggregates, curriculumAggregates, collectionAggregates,
  courseAggregates, chapterAggregates, studentAggregates,
  studentsForSelector,
  cohortAggregates, cohortCurriculumAggregates, cohortCollectionAggregates,
  cohortCourseAggregates, cohortChapterAggregates, cohortStudentAggregates,
  loading, studentLoading, error,
  selectedCurriculumId, selectedCollectionId, selectedCourseId, selectedChapterId,
  cohorts,
  pendingStartup,         \* loadSchools / loadCurriculumHierarchy awaiting their response
  pendingAccess,          \* school id -> handleSchoolSelection calls awaiting canAccessSchool
  pendingBundle,          \* school id -> handleSchoolSelection calls awaiting Promise.all
  pendingLessons,         \* student id -> handleStudentSelection calls awaiting the records
  unhandledRejection      \* a handler's promise was rejected (no caller awaits or catches it)

authVars == <<currentUser, schools, curriculumHierarchy, pendingStartup>>
entityVars == <<selectedSchoolId, selectedCohortId, selectedStudentId>>
filterVars ==
  <<selectedCurriculumId, selectedCollectionId, selectedCourseId, selectedChapterId>>
schoolTables ==
  <<schoolAggregates, curriculumAggregates, collectionAggregates,
    courseAggregates, chapterAggregates, studentAggregates>>
cohortTables ==
  <<cohortAggregates, cohortCurriculumAggregates, cohortCollectionAggregates,
    cohortCourseAggregates, cohortChapterAggregates, cohortStudentAggregates>>
pendingSchool == <<pendingAccess, pendingBundle>>
vars ==
  <<authVars, entityVars, individualStudentData, schoolTables, studentsForSelector,
    cohortTables, loading, studentLoading, error, filterVars, cohorts,
    pendingSchool, pendingLessons, unhandledRejection>>

(***************************************************************************)
(* Helpers for the array methods the code uses.                            *)
(***************************************************************************)
\* array.find(x => x[key] === id): the first element whose field `key` is
\* id, else undefined
Undefined == [isUndefined |-> TRUE]
Find(table, key, id) ==
  LET hits == {i \in DOMAIN table : table[i][key] = id}
  IN  IF hits = {} THEN Undefined
      ELSE table[CHOOSE i \in hits : \A j \in hits : i <= j]

(***************************************************************************)
(* Per-student aggregator, filtered metrics: calculatedStudentMetrics.     *)
(***************************************************************************)
\* filteredData with every selected level filtering, not only the most
\* specific one
filteredDataAllLevels ==
  SelectSeq(individualStudentData.rows,
            LAMBDA lesson :
              /\ selectedChapterId # Null => lesson.chapter_id = selectedChapterId
              /\ selectedCourseId # Null => lesson.course_id = selectedCourseId
              /\ selectedCollectionId # Null
                   => lesson.collection_id = selectedCollectionId
              /\ selectedCurriculumId # Null
                   => lesson.curriculum_id = selectedCurriculumId)

\* the if / else-if chain of the filters, most specific first
filteredData ==
  IF selectedChapterId # Null
    THEN SelectSeq(individualStudentData.rows,
                   LAMBDA lesson : lesson.chapter_id = selectedChapterId)
  ELSE IF selectedCourseId # Null
    THEN SelectSeq(individualStudentData.rows,
                   LAMBDA lesson : lesson.course_id = selectedCourseId)
  ELSE IF selectedCollectionId # Null
    THEN SelectSeq(individualStudentData.rows,
                   LAMBDA lesson : lesson.collection_id = selectedCollectionId)
  ELSE IF selectedCurriculumId # Null
    THEN SelectSeq(individualStudentData.rows,
                   LAMBDA lesson : lesson.curriculum_id = selectedCurriculumId)
  ELSE individualStudentData.rows

\* title of the student metrics: the name of the most specific selected level,
\* read from the first filtered record (`x?.name || 'Level'`)
studentTitle ==
  LET first(Name(_), fallback) ==
        IF Len(filteredData) > 0 THEN Name(filteredData[1]) ELSE fallback
  IN  IF selectedChapterId # Null
        THEN "Student: " \o first(LAMBDA l : l.chapter_name, "Chapter")
      ELSE IF selectedCourseId # Null
        THEN "Student: " \o first(LAMBDA l : l.course_name, "Course")
      ELSE IF selectedCollectionId # Null
        THEN "Student: " \o first(LAMBDA l : l.collection_name, "Collection")
      ELSE IF selectedCurriculumId # Null
        THEN "Student: " \o first(LAMBDA l : l.curriculum_name, "Curriculum")
      ELSE "Student Progress"

\* calculatedStudentMetrics whose requiredCompleted counts every completed
\* record, required or not
calculatedStudentMetricsCountsAllCompleted ==
  IF \/ selectedStudentId = Null
     \/ individualStudentData.isNull
     \/ ~individualStudentData.isArray
    THEN NoResult
    ELSE [ totalLessons |-> Len(filteredData),
           totalCompleted |->
             Len(SelectSeq(filteredData, LAMBDA l : l.completion_date # Null)),
           requiredLessons |->
             Len(SelectSeq(filteredData, LAMBDA l : l.is_required)),
           requiredCompleted |->
             Len(SelectSeq(filteredData, LAMBDA l : l.completion_date # Null)),
           title |-> studentTitle ]

calculatedStudentMetrics ==
  IF \/ selectedStudentId = Null
     \/ individualStudentData.isNull
     \/ ~individualStudentData.isArray
    THEN NoResult
    ELSE [ totalLessons |-> Len(filteredData),
           totalCompleted |->
             Len(SelectSeq(filteredData, LAMBDA l : l.completion_date # Null)),
           requiredLessons |->
             Len(SelectSeq(filteredData, LAMBDA l : l.is_required)),
           requiredCompleted |->
             Len(SelectSeq(filteredData,
                           LAMBDA l : l.is_required /\ l.completion_date # Null)),
           title |-> studentTitle ]

(***************************************************************************)
(* Per-student aggregator, grouping aggregates: perStudentAggregates.      *)
(***************************************************************************)
\* Array.from(map.values()) of one of collectionMap / courseMap / chapterMap:
\* the map is keyed by `${id}-${name}`, so an entry is made at the first
\* record of each (id, name) pair, in the order of the records, and counts
\* the records of that pair
mapValues(rows, idKey, nameKey) ==
  LET key(i) == << rows[i][idKey], rows[i][nameKey] >>
      isNewKey(i) == \A j \in 1..(i - 1) : key(j) # key(i)
      made == SelectSeq([i \in 1..Len(rows) |-> i], isNewKey)
  IN  [ k \in 1..Len(made) |->
          (idKey :> rows[made[k]][idKey]) @@ (nameKey :> rows[made[k]][nameKey])
          @@ [ total_lessons |->
                 Cardinality({ j \in 1..Len(rows) : key(j) = key(made[k]) }),
               completed_lessons |->
                 Cardinality({ j \in 1..Len(rows) :
                                 /\ key(j) = key(made[k])
                                 /\ rows[j].completion_date # Null }) ] ]

perStudentAggregates ==
  IF \/ selectedStudentId = Null
     \/ individualStudentData.isNull
     \/ ~individualStudentData.isArray
    THEN [ collectionAggregates |-> << >>, courseAggregates |-> << >>,
           chapterAggregates |-> << >> ]
    ELSE [ collectionAggregates |->
             mapValues(individualStudentData.rows, "collection_id", "collection_name"),
           courseAggregates |->
             mapValues(individualStudentData.rows, "course_id", "course_name"),
           chapterAggregates |->
             mapValues(individualStudentData.rows, "chapter_id", "chapter_name") ]


(***************************************************************************)
(* Aggregate resolver: currentAggregate.                                   *)
(***************************************************************************)
\* useCohortData that never turns to the cohort-scoped tables
useCohortDataNever == FALSE

useCohortData == selectedCohortId # Null /\ Len(cohortAggregates) > 0

\* the row the decision tree picks, with its title; Undefined when no row
aggregateData ==
  IF selectedChapterId # Null
    THEN Find(IF useCohortData THEN cohortChapterAggregates ELSE chapterAggregates,
              "chapter_id", selectedChapterId)
  ELSE IF selectedCourseId # Null
    THEN Find(IF useCohortData THEN cohortCourseAggregates ELSE courseAggregates,
              "course_id", selectedCourseId)
  ELSE IF selectedCollectionId # Null
    THEN Find(IF useCohortData THEN cohortCollectionAggregates
                               ELSE collectionAggregates,
              "collection_id", selectedCollectionId)
  ELSE IF selectedCurriculumId # Null
    THEN Find(IF useCohortData THEN cohortCurriculumAggregates
                               ELSE curriculumAggregates,
              "curriculum_id", selectedCurriculumId)
  ELSE IF useCohortData
    THEN Find(cohortAggregates, "cohort_id", selectedCohortId)
  ELSE IF Len(schoolAggregates) > 0 THEN schoolAggregates[1] ELSE Undefined

aggregateTitle ==
  IF selectedChapterId # Null THEN "Chapter: " \o aggregateData.chapter_name
  ELSE IF selectedCourseId # Null THEN "Course: " \o aggregateData.course_name
  ELSE IF selectedCollectionId # Null
    THEN "Collection: " \o aggregateData.collection_name
  ELSE IF selectedCurriculumId # Null
    THEN "Curriculum: " \o aggregateData.curriculum_name
  ELSE IF useCohortData THEN "Cohort: " \o aggregateData.cohort_name
  ELSE "School: " \o aggregateData.school_name

\* formattedAggregate with the expected and the completed counts exchanged
formattedAggregateExchanged ==
  [ totalLessons |-> aggregateData.total_lessons_completed,
    totalCompleted |-> aggregateData.total_lessons_expected,
    requiredLessons |-> aggregateData.required_lessons_completed,
    requiredCompleted |-> aggregateData.required_lessons_expected,
    title |-> aggregateTitle ]

\* the renaming of a row's fields into the shape ProgressChart consumes
formattedAggregate ==
  [ totalLessons |-> aggregateData.total_lessons_expected,
    totalCompleted |-> aggregateData.total_lessons_completed,
    requiredLessons |-> aggregateData.required_lessons_expected,
    requiredCompleted |-> aggregateData.required_lessons_completed,
    title |-> aggregateTitle ]

\* currentAggregate with the aggregate tables consulted before the student
\* metrics
currentAggregateTablesFirst ==
  IF aggregateData # Undefined THEN formattedAggregate
  ELSE IF selectedStudentId # Null /\ calculatedStudentMetrics # NoResult
    THEN calculatedStudentMetrics
  ELSE NoResult

currentAggregate ==
  IF selectedStudentId # Null /\ calculatedStudentMetrics # NoResult
    THEN calculatedStudentMetrics
  ELSE IF aggregateData # Undefined THEN formattedAggregate
  ELSE NoResult

(***************************************************************************)
(* Display projection of ProgressChart.                                    *)
(***************************************************************************)
NoDataFallback ==
  [ totalLessons |-> 0, totalCompleted |-> 0, requiredLessons |-> 0,
    requiredCompleted |-> 0, title |-> "No Data Available" ]

\* displayData that shows the school-wide row when the resolver has nothing
displayDataFallsBackToSchool ==
  IF calculatedStudentMetrics # NoResult THEN calculatedStudentMetrics
  ELSE IF currentAggregate # NoResult THEN currentAggregate
  ELSE IF Len(schoolAggregates) > 0
    THEN [ totalLessons |-> schoolAggregates[1].total_lessons_expected,
           totalCompleted |-> schoolAggregates[1].total_lessons_completed,
           requiredLessons |-> schoolAggregates[1].required_lessons_expected,
           requiredCompleted |-> schoolAggregates[1].required_lessons_completed,
           title |-> "School: " \o schoolAggregates[1].school_name ]
  ELSE NoDataFallback

\* displayData that puts the row of the aggregate tables before the student
\* metrics
displayDataPrefersAggregateRow ==
  IF aggregateData # Undefined THEN formattedAggregate
  ELSE IF calculatedStudentMetrics # NoResult THEN calculatedStudentMetrics
  ELSE NoDataFallback

displayData ==
  IF calculatedStudentMetrics # NoResult THEN calculatedStudentMetrics
  ELSE IF currentAggregate # NoResult THEN currentAggregate
  ELSE NoDataFallback

\* Math.round((part / whole) * 100) for 0 <= part <= whole, 0 < whole, in the
\* arithmetic of JavaScript numbers (IEEE-754 doubles, round to nearest even).
\* The quotient q = part / whole is rounded to 53 bits, the product q * 100 is
\* rounded again, and Math.round rounds halves up.  Both rounding errors are
\* below 2^-45, so the result is the exact 100 * part / whole rounded half up
\* unless that exact value is a half h = k - 1/2; then it is k or k - 1
\* according to whether the doubly rounded product is >= h or < h.
RECURSIVE Pow2(_)
Pow2(n) == IF n = 0 THEN 1 ELSE 2 * Pow2(n - 1)
\* 2^n mod m
RECURSIVE Pow2Mod(_, _)
Pow2Mod(n, m) == IF n = 0 THEN 1 % m ELSE (2 * Pow2Mod(n - 1, m)) % m
\* floor(log2(m)) for m >= 1
RECURSIVE FloorLog2(_)
FloorLog2(m) == IF m < 2 THEN 0 ELSE 1 + FloorLog2(m \div 2)
\* the least s with part * 2^s >= whole, for part > 0
RECURSIVE Shift(_, _)
Shift(part, whole) == IF part >= whole THEN 0 ELSE 1 + Shift(2 * part, whole)

\* whether the double (part / whole) * 100 lies below the half h that
\* 100 * part / whole equals exactly
ProductBelowHalf(part, whole) ==
  LET k == (200 * part + whole) \div (2 * whole)
      \* the quotient has the 53 bits floor(part * 2^n / whole), n = 52 + s,
      \* plus one if the remainder r is more than half of whole
      s == Shift(part, whole)
      r == (part * Pow2Mod(52 + s, whole)) % whole
      \* h = (2k - 1) / 2 lies in [2^e, 2^(e+1)), e = FloorLog2(2k - 1) - 1;
      \* the doubles below h are 2^(e-52) apart, 2^(e-53) when h = 2^e
      e == FloorLog2(2 * k - 1) - 1
      isPowerOfTwo == 2 * k - 1 = 1
      \* q * 100 = h - 100 * r / (whole * 2^n) rounds below h iff it is more
      \* than half a spacing away from h
      limit == whole * Pow2(IF isPowerOfTwo THEN s + e - 2 ELSE s + e - 1)
  IN  /\ r # 0
      /\ 2 * r < whole
      /\ 100 * r > limit

RoundedPercent(part, whole) ==
  LET k == (200 * part + whole) \div (2 * whole)
      isHalf == (200 * part) % (2 * whole) = whole
  IN  IF isHalf /\ ProductBelowHalf(part, whole) THEN k - 1 ELSE k

totalPercentage ==
  IF displayData.totalLessons > 0
    THEN RoundedPercent(displayData.totalCompleted, displayData.totalLessons)
    ELSE 0
requiredPercentage ==
  IF displayData.requiredLessons > 0
    THEN RoundedPercent(displayData.requiredCompleted, displayData.requiredLessons)
    ELSE 0

\* ProgressChart renders the "No Data Available" panel instead of the metric
\* cards when `!displayData.totalLessons`
showsEmptyState == displayData.totalLessons = 0

(***************************************************************************)
(* Requests in flight.                                                     *)
(***************************************************************************)
NoRequests(ids) == [i \in ids |-> 0]
RECURSIVE SumOver(_, _)
SumOver(f, ids) ==
  IF ids = {} THEN 0
  ELSE LET i == CHOOSE j \in ids : TRUE IN f[i] + SumOver(f, ids \ {i})
InFlight(f) == SumOver(f, DOMAIN f)
Issue(f, i) == [f EXCEPT ![i] = @ + 1]
\* all the requests awaiting their response
InFlightTotal ==
  pendingStartup.schools + pendingStartup.hierarchy + InFlight(pendingAccess)
  + InFlight(pendingBundle) + InFlight(pendingLessons)
Settle(f, i) == [f EXCEPT ![i] = @ - 1]

\* `response.key || []`: the table under that key, [] when the response has
\* no such key
TableOr(response, key) ==
  IF key \in DOMAIN response THEN response[key] ELSE << >>

\* the Student object built from a student aggregate row
toStudent(studentAgg) ==
  [ id |-> studentAgg.student_id,
    student_email |-> studentAgg.student_email,
    student_first |-> studentAgg.student_first,
    student_last |-> studentAgg.student_last,
    school_id |-> studentAgg.school_id ]

\* array.map(studentAgg => Student)
toStudents(table) == [i \in DOMAIN table |-> toStudent(table[i])]

Ids(table) == {table[i].id : i \in DOMAIN table}

(***************************************************************************)
(* Initial state: the useState initialisers.                               *)
(***************************************************************************)
Init ==
  /\ currentUser = "none"
  /\ schools = << >>
  /\ curriculumHierarchy = << >>
  /\ pendingStartup = [schools |-> 0, hierarchy |-> 0]
  /\ selectedSchoolId = Null
  /\ selectedCohortId = Null
  /\ selectedStudentId = Null
  /\ individualStudentData = NullData
  /\ schoolAggregates = << >>
  /\ curriculumAggregates = << >>
  /\ collectionAggregates = << >>
  /\ courseAggregates = << >>
  /\ chapterAggregates = << >>
  /\ studentAggregates = << >>
  /\ studentsForSelector = << >>
  /\ cohortAggregates = << >>
  /\ cohortCurriculumAggregates = << >>
  /\ cohortCollectionAggregates = << >>
  /\ cohortCourseAggregates = << >>
  /\ cohortChapterAggregates = << >>
  /\ cohortStudentAggregates = << >>
  /\ loading = FALSE
  /\ studentLoading = FALSE
  /\ error = NoError
  /\ selectedCurriculumId = Null
  /\ selectedCollectionId = Null
  /\ selectedCourseId = Null
  /\ selectedChapterId = Null
  /\ cohorts = << >>
  /\ pendingAccess = NoRequests(SchoolIds)
  /\ pendingBundle = NoRequests(SchoolIds)
  /\ pendingLessons = NoRequests(StudentIds)
  /\ unhandledRejection = FALSE

(***************************************************************************)
(* Authentication and the loads it starts.                                 *)
(***************************************************************************)
\* checkAuthentication finding a user, or handleLoginSuccess from the login
\* form: the user is set, and the effect on isAuthenticated starts loadSchools
\* and loadCurriculumHierarchy.
handleLoginSuccess(role) ==
  /\ currentUser = "none"
  /\ InFlightTotal + 2 <= MaxInFlight
  /\ currentUser' = role
  /\ loading' = TRUE
  /\ error' = NoError
  /\ pendingStartup' = [schools |-> pendingStartup.schools + 1,
                        hierarchy |-> pendingStartup.hierarchy + 1]
  /\ UNCHANGED <<unhandledRejection, schools, curriculumHierarchy, entityVars, individualStudentData,
                 schoolTables, studentsForSelector, cohortTables, studentLoading,
                 filterVars, cohorts, pendingSchool, pendingLessons>>

\* loadSchools after its await: the list is stored, or the error is; the
\* finally block releases the loading flag
loadSchoolsSettled(ok) ==
  /\ pendingStartup.schools > 0
  /\ pendingStartup' = [pendingStartup EXCEPT !.schools = @ - 1]
  /\ IF ok
       THEN schools' = SchoolsTable /\ UNCHANGED error
       ELSE error' = "Failed to load schools" /\ UNCHANGED schools
  /\ loading' = FALSE
  /\ UNCHANGED <<unhandledRejection, currentUser, curriculumHierarchy, entityVars,
                 individualStudentData, schoolTables, studentsForSelector,
                 cohortTables, studentLoading, filterVars, cohorts,
                 pendingSchool, pendingLessons>>

\* loadCurriculumHierarchy after its await; a failure is only logged
loadCurriculumHierarchySettled(ok) ==
  /\ pendingStartup.hierarchy > 0
  /\ pendingStartup' = [pendingStartup EXCEPT !.hierarchy = @ - 1]
  /\ curriculumHierarchy' = IF ok THEN HierarchyTable ELSE curriculumHierarchy
  /\ UNCHANGED <<unhandledRejection, currentUser, schools, entityVars, individualStudentData,
                 schoolTables, studentsForSelector, cohortTables, loading,
                 studentLoading, error, filterVars, cohorts, pendingSchool,
                 pendingLessons>>

\* handleLogout: authService.logout() only clears localStorage, so the body
\* after its await runs before any other event
handleLogout ==
  /\ currentUser # "none"
  /\ currentUser' = "none"
  /\ selectedSchoolId' = Null
  /\ selectedCohortId' = Null
  /\ selectedStudentId' = Null
  /\ individualStudentData' = NullData
  /\ schools' = << >>
  /\ cohorts' = << >>
  /\ UNCHANGED <<unhandledRejection, curriculumHierarchy, pendingStartup, schoolTables,
                 studentsForSelector, cohortTables, loading, studentLoading,
                 error, filterVars, pendingSchool, pendingLessons>>

(***************************************************************************)
(* handleSchoolSelection.                                                  *)
(***************************************************************************)
\* the deselection branch without its setSelectedStudentId(null)
schoolDeselectedKeepsStudent ==
  /\ selectedSchoolId' = Null
  /\ selectedCohortId' = Null
  /\ cohorts' = << >>
  /\ schoolAggregates' = << >>
  /\ curriculumAggregates' = << >>
  /\ collectionAggregates' = << >>
  /\ courseAggregates' = << >>
  /\ chapterAggregates' = << >>
  /\ studentAggregates' = << >>
  /\ studentsForSelector' = << >>
  /\ individualStudentData' = NullData
  /\ UNCHANGED <<unhandledRejection, authVars, cohortTables, loading, studentLoading, error,
                 filterVars, pendingSchool, pendingLessons, selectedStudentId>>

\* the deselection branch (`!schoolId`): no request is issued
schoolDeselected ==
  /\ selectedSchoolId' = Null
  /\ selectedCohortId' = Null
  /\ cohorts' = << >>
  /\ schoolAggregates' = << >>
  /\ curriculumAggregates' = << >>
  /\ collectionAggregates' = << >>
  /\ courseAggregates' = << >>
  /\ chapterAggregates' = << >>
  /\ studentAggregates' = << >>
  /\ studentsForSelector' = << >>
  /\ selectedStudentId' = Null
  /\ individualStudentData' = NullData
  /\ UNCHANGED <<unhandledRejection, authVars, cohortTables, loading, studentLoading, error,
                 filterVars, pendingSchool, pendingLessons>>

\* the synchronous stretch after the access check, up to the await of
\* Promise.all([getAggregatedDataForSchool, getCohorts]); `access` is
\* pendingAccess as the caller leaves it
schoolSelected(schoolId, access) ==
  /\ loading' = TRUE
  /\ error' = NoError
  /\ selectedCohortId' = Null
  /\ selectedStudentId' = Null
  /\ individualStudentData' = NullData
  /\ selectedSchoolId' = schoolId
  /\ pendingAccess' = access
  /\ pendingBundle' = Issue(pendingBundle, schoolId)
  /\ UNCHANGED <<unhandledRejection, authVars, schoolTables, studentsForSelector, cohortTables,
                 studentLoading, filterVars, cohorts, pendingLessons>>

\* the call itself: deselection, or the access check (awaited only for a user
\* who is not supaadmin), or straight on to the selection
handleSchoolSelection(schoolId) ==
  IF schoolId = Null THEN schoolDeselected
  ELSE IF currentUser # "none" /\ currentUser # "supaadmin"
    THEN /\ pendingAccess' = Issue(pendingAccess, schoolId)
         /\ UNCHANGED <<unhandledRejection, authVars, entityVars, individualStudentData, schoolTables,
                        studentsForSelector, cohortTables, loading, studentLoading,
                        error, filterVars, cohorts, pendingBundle, pendingLessons>>
  ELSE schoolSelected(schoolId, pendingAccess)

\* accessCheckSettled that goes on to the selection whatever the answer
accessCheckSettledIgnoresDenial(schoolId, canAccess) ==
  /\ pendingAccess[schoolId] > 0
  /\ schoolSelected(schoolId, Settle(pendingAccess, schoolId))

\* authService.canAccessSchool settles (false also on any failure of its call)
accessCheckSettled(schoolId, canAccess) ==
  /\ pendingAccess[schoolId] > 0
  /\ IF canAccess
       THEN schoolSelected(schoolId, Settle(pendingAccess, schoolId))
       ELSE /\ error' = "You do not have permission to access this school"
            /\ pendingAccess' = Settle(pendingAccess, schoolId)
            /\ UNCHANGED <<unhandledRejection, authVars, entityVars, individualStudentData,
                           schoolTables, studentsForSelector, cohortTables,
                           loading, studentLoading, filterVars, cohorts,
                           pendingBundle, pendingLessons>>

\* Promise.all resolves: the twelve tables, the cohort list and the student
\* list of the response replace the held ones
bundleResolved(schoolId) ==
  /\ pendingBundle[schoolId] > 0
  /\ pendingBundle' = Settle(pendingBundle, schoolId)
  /\ LET millenniumFalcon == BundleOf(schoolId) IN
       /\ schoolAggregates' = TableOr(millenniumFalcon, "schoolAggregate")
       /\ curriculumAggregates' = TableOr(millenniumFalcon, "curriculumAggregate")
       /\ collectionAggregates' =
            TableOr(millenniumFalcon, "schoolCollectionAggregate")
       /\ courseAggregates' = TableOr(millenniumFalcon, "schoolCourseAggregate")
       /\ chapterAggregates' = TableOr(millenniumFalcon, "schoolChapterAggregate")
       /\ studentAggregates' = TableOr(millenniumFalcon, "studentAggregate")
       /\ cohorts' = CohortsOf(schoolId)
       /\ cohortAggregates' = TableOr(millenniumFalcon, "cohortAggregate")
       /\ cohortCurriculumAggregates' =
            TableOr(millenniumFalcon, "cohortCurriculumAggregate")
       /\ cohortCollectionAggregates' =
            TableOr(millenniumFalcon, "cohortCollectionAggregate")
       /\ cohortCourseAggregates' =
            TableOr(millenniumFalcon, "cohortCourseAggregate")
       /\ cohortChapterAggregates' =
            TableOr(millenniumFalcon, "cohortChapterAggregate")
       /\ cohortStudentAggregates' =
            TableOr(millenniumFalcon, "cohortStudentAggregate")
       /\ studentsForSelector' =
            toStudents(TableOr(millenniumFalcon, "schoolStudentAggregate"))
  /\ UNCHANGED <<unhandledRejection, authVars, entityVars, individualStudentData, loading,
                 studentLoading, error, filterVars, pendingAccess, pendingLessons>>

\* bundleRejected that also empties the held aggregate tables
bundleRejectedClearsTables(schoolId) ==
  /\ pendingBundle[schoolId] > 0
  /\ pendingBundle' = Settle(pendingBundle, schoolId)
  /\ error' = "Failed to load school data"
  /\ unhandledRejection' = TRUE
  /\ schoolAggregates' = << >>
  /\ curriculumAggregates' = << >>
  /\ collectionAggregates' = << >>
  /\ courseAggregates' = << >>
  /\ chapterAggregates' = << >>
  /\ studentAggregates' = << >>
  /\ UNCHANGED <<authVars, entityVars, individualStudentData,
                 studentsForSelector, cohortTables, loading, studentLoading,
                 filterVars, cohorts, pendingAccess, pendingLessons>>

\* Promise.all rejects: the error is stored and rethrown
bundleRejected(schoolId) ==
  /\ pendingBundle[schoolId] > 0
  /\ pendingBundle' = Settle(pendingBundle, schoolId)
  /\ error' = "Failed to load school data"
  \* `throw dataError`: the outer try block has ended before, so the promise
  \* of handleSchoolSelection is rejected
  /\ unhandledRejection' = TRUE
  /\ UNCHANGED <<authVars, entityVars, individualStudentData, schoolTables,
                 studentsForSelector, cohortTables, loading, studentLoading,
                 filterVars, cohorts, pendingAccess, pendingLessons>>

(***************************************************************************)
(* handleCohortSelection.                                                  *)
(***************************************************************************)
\* handleCohortSelection without the reset of the student selection and of
\* the lesson records
handleCohortSelectionKeepsStudent(cohortId) ==
  /\ selectedCohortId' = cohortId
  /\ IF cohortId = Null
       THEN IF selectedSchoolId # Null /\ Len(studentAggregates) > 0
              THEN studentsForSelector' = toStudents(studentAggregates)
              ELSE UNCHANGED studentsForSelector
       ELSE studentsForSelector' =
              toStudents(SelectSeq(cohortStudentAggregates,
                                   LAMBDA agg : agg.cohort_id = cohortId))
  /\ UNCHANGED <<unhandledRejection, authVars, selectedSchoolId, schoolTables, cohortTables, loading,
                 studentLoading, error, filterVars, cohorts, pendingSchool,
                 pendingLessons, selectedStudentId, individualStudentData>>

handleCohortSelection(cohortId) ==
  /\ selectedCohortId' = cohortId
  /\ selectedStudentId' = Null
  /\ individualStudentData' = NullData
  /\ IF cohortId = Null
       THEN IF selectedSchoolId # Null /\ Len(studentAggregates) > 0
              THEN studentsForSelector' = toStudents(studentAggregates)
              ELSE UNCHANGED studentsForSelector
       ELSE studentsForSelector' =
              toStudents(SelectSeq(cohortStudentAggregates,
                                   LAMBDA agg : agg.cohort_id = cohortId))
  /\ UNCHANGED <<unhandledRejection, authVars, selectedSchoolId, schoolTables, cohortTables, loading,
                 studentLoading, error, filterVars, cohorts, pendingSchool,
                 pendingLessons>>

(***************************************************************************)
(* handleStudentSelection.                                                 *)
(***************************************************************************)
handleStudentSelection(studentId) ==
  IF studentId = Null
    THEN /\ selectedStudentId' = Null
         /\ individualStudentData' = NullData
         /\ UNCHANGED <<unhandledRejection, authVars, selectedSchoolId, selectedCohortId, schoolTables,
                        studentsForSelector, cohortTables, loading, studentLoading,
                        error, filterVars, cohorts, pendingSchool, pendingLessons>>
    ELSE /\ studentLoading' = TRUE
         /\ error' = NoError
         /\ selectedStudentId' = studentId
         /\ pendingLessons' = Issue(pendingLessons, studentId)
         /\ UNCHANGED <<unhandledRejection, authVars, selectedSchoolId, selectedCohortId,
                        individualStudentData, schoolTables, studentsForSelector,
                        cohortTables, loading, filterVars, cohorts, pendingSchool>>

\* getIndividualStudentData resolves: the records are stored whatever is
\* selected by now
lessonsResolved(studentId) ==
  /\ pendingLessons[studentId] > 0
  /\ pendingLessons' = Settle(pendingLessons, studentId)
  /\ individualStudentData' = ArrayData(LessonsOf(studentId))
  /\ studentLoading' = FALSE
  /\ UNCHANGED <<unhandledRejection, authVars, entityVars, schoolTables, studentsForSelector,
                 cohortTables, loading, error, filterVars, cohorts, pendingSchool>>

lessonsRejected(studentId) ==
  /\ pendingLessons[studentId] > 0
  /\ pendingLessons' = Settle(pendingLessons, studentId)
  /\ error' = "Failed to load student data"
  /\ studentLoading' = FALSE
  /\ UNCHANGED <<unhandledRejection, authVars, entityVars, individualStudentData, schoolTables,
                 studentsForSelector, cohortTables, loading, filterVars, cohorts,
                 pendingSchool>>

(***************************************************************************)
(* The four filter handlers.                                               *)
(***************************************************************************)
notFilters ==
  <<unhandledRejection, authVars, entityVars, individualStudentData, schoolTables,
    studentsForSelector, cohortTables, loading, studentLoading, error, cohorts,
    pendingSchool, pendingLessons>>

handleCurriculumSelection(curriculumId) ==
  /\ selectedCurriculumId' = curriculumId
  /\ selectedCollectionId' = Null
  /\ selectedCourseId' = Null
  /\ selectedChapterId' = Null
  /\ UNCHANGED notFilters

handleCollectionSelection(collectionId) ==
  /\ selectedCollectionId' = collectionId
  /\ selectedCourseId' = Null
  /\ selectedChapterId' = Null
  /\ UNCHANGED <<notFilters, selectedCurriculumId>>

\* handleCourseSelection without its setSelectedChapterId(null)
handleCourseSelectionKeepsChapter(courseId) ==
  /\ selectedCourseId' = courseId
  /\ UNCHANGED <<notFilters, selectedCurriculumId, selectedCollectionId,
                 selectedChapterId>>

handleCourseSelection(courseId) ==
  /\ selectedCourseId' = courseId
  /\ selectedChapterId' = Null
  /\ UNCHANGED <<notFilters, selectedCurriculumId, selectedCollectionId>>

handleChapterSelection(chapterId) ==
  /\ selectedChapterId' = chapterId
  /\ UNCHANGED <<notFilters, selectedCurriculumId, selectedCollectionId,
                 selectedCourseId>>

(***************************************************************************)
(* The user interface: what the rendered selectors let the user do.  The   *)
(* main view exists only while a user is authenticated.                    *)
(***************************************************************************)
\* the debug panel of a supaadmin switches to a preset user (no new login:
\* isAuthenticated stays true and the startup loads are not repeated)
handleUserChange ==
  /\ currentUser = "supaadmin"
  /\ currentUser' = "guest"
  /\ error' = error
  /\ UNCHANGED <<unhandledRejection, schools, curriculumHierarchy, pendingStartup, entityVars,
                 individualStudentData, schoolTables, studentsForSelector,
                 cohortTables, loading, studentLoading, filterVars, cohorts,
                 pendingSchool, pendingLessons>>

Login == \E role \in {"supaadmin", "guest"} : handleLoginSuccess(role)

\* SchoolSelector: an option of the loaded school list, or the clear button
SelectSchool ==
  /\ currentUser # "none"
  /\ \E schoolId \in Ids(schools) \cup {Null} :
       /\ schoolId # Null => InFlightTotal < MaxInFlight
       /\ handleSchoolSelection(schoolId)

\* CohortSelector, disabled={!selectedSchoolId}
SelectCohort ==
  /\ currentUser # "none"
  /\ selectedSchoolId # Null
  /\ \E cohortId \in Ids(cohorts) \cup {Null} : handleCohortSelection(cohortId)

\* StudentSelector, disabled={!selectedSchoolId}
SelectStudent ==
  /\ currentUser # "none"
  /\ selectedSchoolId # Null
  /\ \E studentId \in Ids(studentsForSelector) \cup {Null} :
       /\ studentId # Null => InFlightTotal < MaxInFlight
       /\ handleStudentSelection(studentId)

\* CurriculumFilters renders its four <select>s once the hierarchy is loaded;
\* each lists the distinct ids of its level among the hierarchy rows that
\* match the selected next-coarser level, and all but the first are disabled
\* while the next-coarser level is not selected
filtersRendered == currentUser # "none" /\ Len(curriculumHierarchy) > 0
curricula == {curriculumHierarchy[i].curriculum_id : i \in DOMAIN curriculumHierarchy}
collections ==
  {curriculumHierarchy[i].collection_id :
     i \in {j \in DOMAIN curriculumHierarchy :
              selectedCurriculumId = Null
              \/ curriculumHierarchy[j].curriculum_id = selectedCurriculumId}}
courses ==
  {curriculumHierarchy[i].course_id :
     i \in {j \in DOMAIN curriculumHierarchy :
              selectedCollectionId = Null
              \/ curriculumHierarchy[j].collection_id = selectedCollectionId}}
chapters ==
  {curriculumHierarchy[i].chapter_id :
     i \in {j \in DOMAIN curriculumHierarchy :
              selectedCourseId = Null
              \/ curriculumHierarchy[j].course_id = selectedCourseId}}

(***************************************************************************)
(* The numbers CurriculumFilters shows next to its options.                *)
(***************************************************************************)
\* the tables of the scope in use, school-wide or cohort-scoped
activeAggregates ==
  IF selectedCohortId # Null /\ Len(cohortAggregates) > 0
    THEN [ curriculumAggregates |-> cohortCurriculumAggregates,
           collectionAggregates |-> cohortCollectionAggregates,
           courseAggregates |-> cohortCourseAggregates,
           chapterAggregates |-> cohortChapterAggregates ]
    ELSE [ curriculumAggregates |-> curriculumAggregates,
           collectionAggregates |-> collectionAggregates,
           courseAggregates |-> courseAggregates,
           chapterAggregates |-> chapterAggregates ]

\* the three aggregate props AppContent passes to CurriculumFilters
\* (perStudentAggregates is an object, so `selectedStudentId &&
\* perStudentAggregates` is the test of the student id alone)
CurriculumFiltersProps ==
  IF selectedStudentId # Null
    THEN [ collectionAggregates |-> perStudentAggregates.collectionAggregates,
           courseAggregates |-> perStudentAggregates.courseAggregates,
           chapterAggregates |-> perStudentAggregates.chapterAggregates ]
    ELSE [ collectionAggregates |-> activeAggregates.collectionAggregates,
           courseAggregates |-> activeAggregates.courseAggregates,
           chapterAggregates |-> activeAggregates.chapterAggregates ]

\* `agg ? agg.total_lessons_completed : 0`: reading a property the row does
\* not have gives undefined
\* (the number n is written Number(n), to tell it from undefined)
Number(n) == [isUndefined |-> FALSE, value |-> n]
totalLessonsCompletedOr0(agg) ==
  IF agg = Undefined THEN Number(0)
  ELSE IF "total_lessons_completed" \in DOMAIN agg
    THEN Number(agg.total_lessons_completed)
  ELSE Undefined

getCollectionCompleted(collection_id) ==
  totalLessonsCompletedOr0(
    Find(CurriculumFiltersProps.collectionAggregates, "collection_id", collection_id))
getCourseCompleted(course_id) ==
  totalLessonsCompletedOr0(
    Find(CurriculumFiltersProps.courseAggregates, "course_id", course_id))
getChapterCompleted(chapter_id) ==
  totalLessonsCompletedOr0(
    Find(CurriculumFiltersProps.chapterAggregates, "chapter_id", chapter_id))

\* the chapter <select> without its `disabled` attribute
chapterSelectNeverDisabled == FALSE

chapterSelectDisabled == selectedCourseId = Null
collectionSelectDisabled == selectedCurriculumId = Null
courseSelectDisabled == selectedCollectionId = Null

SelectCurriculum ==
  /\ filtersRendered
  /\ \E id \in curricula \cup {Null} : handleCurriculumSelection(id)
SelectCollection ==
  /\ filtersRendered
  /\ ~collectionSelectDisabled
  /\ \E id \in collections \cup {Null} : handleCollectionSelection(id)
SelectCourse ==
  /\ filtersRendered
  /\ ~courseSelectDisabled
  /\ \E id \in courses \cup {Null} : handleCourseSelection(id)
SelectChapter ==
  /\ filtersRendered
  /\ ~chapterSelectDisabled
  /\ \E id \in chapters \cup {Null} : handleChapterSelection(id)

(***************************************************************************)
(* Responses of the network.                                               *)
(***************************************************************************)
SchoolsLoaded == \E ok \in BOOLEAN : loadSchoolsSettled(ok)
HierarchyLoaded == \E ok \in BOOLEAN : loadCurriculumHierarchySettled(ok)
AccessChecked ==
  \E schoolId \in SchoolIds, canAccess \in BOOLEAN :
    accessCheckSettled(schoolId, canAccess)
BundleArrives == \E schoolId \in SchoolIds : bundleResolved(schoolId)
BundleFails == \E schoolId \in SchoolIds : bundleRejected(schoolId)
LessonsArrive == \E studentId \in StudentIds : lessonsResolved(studentId)
LessonsFail == \E studentId \in StudentIds : lessonsRejected(studentId)

Next ==
  \/ Login
  \/ handleUserChange
  \/ handleLogout
  \/ SchoolsLoaded
  \/ HierarchyLoaded
  \/ SelectSchool
  \/ AccessChecked
  \/ BundleArrives
  \/ BundleFails
  \/ SelectCohort
  \/ SelectStudent
  \/ LessonsArrive
  \/ LessonsFail
  \/ SelectCurriculum
  \/ SelectCollection
  \/ SelectCourse
  \/ SelectChapter

Spec == Init /\ [][Next]_vars

(***************************************************************************)
(* The per-student aggregator on its own: calculatedStudentMetrics is a    *)
(* pure function of the held records and the four filter ids.  The records *)
(* are drawn freely; the filter handlers, called with any id whatever the   *)
(* selects would offer, then bring about every combination of the ids.     *)
(***************************************************************************)
FilterIds == {Null, 1, 2}

\* records of one student, among them two whose chapter sits under another
\* curriculum, collection and course than in the other records
RecordKinds ==
  { LessonRecord(1, 1, 1, 1, 1, TRUE, TRUE),
    LessonRecord(1, 1, 1, 1, 1, FALSE, FALSE),
    LessonRecord(1, 1, 1, 2, 2, TRUE, FALSE),
    LessonRecord(1, 1, 1, 2, 2, FALSE, TRUE),
    LessonRecord(1, 2, 2, 2, 1, TRUE, TRUE),
    LessonRecord(1, 2, 1, 1, 2, TRUE, FALSE),
    \* student_progress is denormalized: every row carries its own copy of
    \* the names, here a row written before collection 1 was renamed
    [ LessonRecord(1, 1, 1, 1, 1, TRUE, TRUE)
        EXCEPT !.collection_name = "Emergency (2023)" ] }

RECURSIVE RecordSeqs(_)
RecordSeqs(n) ==
  IF n = 0 THEN { << >> }
  ELSE RecordSeqs(n - 1)
       \cup { Append(rows, r) : rows \in { q \in RecordSeqs(n - 1) : Len(q) = n - 1 },
                                r \in RecordKinds }

InitFilters ==
  /\ currentUser = "supaadmin"
  /\ schools = SchoolsTable
  /\ curriculumHierarchy = HierarchyTable
  /\ pendingStartup = [schools |-> 0, hierarchy |-> 0]
  /\ selectedSchoolId = 1
  /\ selectedCohortId = Null
  /\ selectedStudentId = 1
  /\ individualStudentData
       \in { ArrayData(rows) : rows \in RecordSeqs(MaxRecords) } \cup { NotAnArray }
  /\ schoolAggregates = << >>
  /\ curriculumAggregates = << >>
  /\ collectionAggregates = << >>
  /\ courseAggregates = << >>
  /\ chapterAggregates = << >>
  /\ studentAggregates = << >>
  /\ studentsForSelector = << >>
  /\ cohortAggregates = << >>
  /\ cohortCurriculumAggregates = << >>
  /\ cohortCollectionAggregates = << >>
  /\ cohortCourseAggregates = << >>
  /\ cohortChapterAggregates = << >>
  /\ cohortStudentAggregates = << >>
  /\ loading = FALSE
  /\ studentLoading = FALSE
  /\ error = NoError
  /\ selectedCurriculumId = Null
  /\ selectedCollectionId = Null
  /\ selectedCourseId = Null
  /\ selectedChapterId = Null
  /\ cohorts = << >>
  /\ pendingAccess = NoRequests(SchoolIds)
  /\ pendingBundle = NoRequests(SchoolIds)
  /\ pendingLessons = NoRequests(StudentIds)
  /\ unhandledRejection = FALSE

CurriculumChosen == \E id \in FilterIds : handleCurriculumSelection(id)
CollectionChosen == \E id \in FilterIds : handleCollectionSelection(id)
CourseChosen == \E id \in FilterIds : handleCourseSelection(id)
ChapterChosen == \E id \in FilterIds : handleChapterSelection(id)

NextFilters ==
  \/ CurriculumChosen
  \/ CollectionChosen
  \/ CourseChosen
  \/ ChapterChosen

SpecFilters == InitFilters /\ [][NextFilters]_vars

(***************************************************************************)
(* Claims C1 - C5: the selection state machine.                            *)
(***************************************************************************)
\* C1: once the lesson fetches issued for the selected students have all
\* arrived without an error, the held lesson records are those of the
\* student selected now; the response for a student selected earlier never
\* overwrites them.
C1_HeldRecordsAreTheSelectedStudents ==
  ( /\ selectedStudentId # Null
    /\ InFlight(pendingLessons) = 0
    /\ error = NoError
    /\ individualStudentData.isArray )
  => \A i \in DOMAIN individualStudentData.rows :
       individualStudentData.rows[i].student_id = selectedStudentId

C4_FilterHandlersClearAndKeep ==
  [][ /\ (\E id \in FilterIds : handleCurriculumSelection(id))
         => /\ selectedCollectionId' = Null
            /\ selectedCourseId' = Null
            /\ selectedChapterId' = Null
      /\ (\E id \in FilterIds : handleCollectionSelection(id))
         => /\ selectedCourseId' = Null
            /\ selectedChapterId' = Null
            /\ selectedCurriculumId' = selectedCurriculumId
      /\ (\E id \in FilterIds : handleCourseSelection(id))
         => /\ selectedChapterId' = Null
            /\ selectedCurriculumId' = selectedCurriculumId
            /\ selectedCollectionId' = selectedCollectionId
      /\ (\E id \in FilterIds : handleChapterSelection(id))
         => /\ selectedCurriculumId' = selectedCurriculumId
            /\ selectedCollectionId' = selectedCollectionId
            /\ selectedCourseId' = selectedCourseId
    ]_vars

\* a course has been chosen: its id is set, the chapter is null and the
\* coarser levels are as they were
C4_Witness ==
  /\ selectedCourseId = 2
  /\ selectedChapterId = Null
  /\ selectedCollectionId # Null
  /\ selectedCurriculumId # Null

\* the steps in which a school selection is applied: the deselection, and the
\* stretch that sets the school, at once or after a granted access check
SchoolSelectionApplied ==
  \/ schoolDeselected
  \/ \E schoolId \in SchoolIds :
       \/ schoolSelected(schoolId, pendingAccess)
       \/ /\ pendingAccess[schoolId] > 0
          /\ schoolSelected(schoolId, Settle(pendingAccess, schoolId))

\* C5: after every step that applies a school selection (an accessible id, or
\* null) the cohort id, the student id and the four filter ids are null.
C5_SelectSchoolClearsBelow ==
  [][ SchoolSelectionApplied
      => /\ selectedCohortId' = Null
         /\ selectedStudentId' = Null
         /\ selectedCurriculumId' = Null
         /\ selectedCollectionId' = Null
         /\ selectedCourseId' = Null
         /\ selectedChapterId' = Null
    ]_vars

(***************************************************************************)
(* Claims C6 - C9: the resolver and the display projection.                *)
(***************************************************************************)
\* the student metrics apply: a student is selected and the metrics exist
StudentMetricsApply ==
  selectedStudentId # Null /\ calculatedStudentMetrics # NoResult

\* C6: whenever a student is selected and the filtered student metrics are
\* non-null, the resolver's result is those metrics (the four counts and the
\* title), whatever the aggregate tables hold and whatever cohort and filter
\* ids are selected.
C6_ResolverPrefersStudentMetrics ==
  StudentMetricsApply
  => /\ currentAggregate # NoResult
     /\ currentAggregate.totalLessons = calculatedStudentMetrics.totalLessons
     /\ currentAggregate.totalCompleted = calculatedStudentMetrics.totalCompleted
     /\ currentAggregate.requiredLessons = calculatedStudentMetrics.requiredLessons
     /\ currentAggregate.requiredCompleted
          = calculatedStudentMetrics.requiredCompleted
     /\ currentAggregate.title = calculatedStudentMetrics.title

\* the metrics of a student are shown although a cohort and a chapter are
\* selected for which the cohort-scoped table holds a row with other counts
C6_Witness ==
  /\ StudentMetricsApply
  /\ selectedCohortId # Null
  /\ selectedChapterId # Null
  /\ \E i \in DOMAIN cohortChapterAggregates :
       /\ cohortChapterAggregates[i].chapter_id = selectedChapterId
       /\ cohortChapterAggregates[i].total_lessons_expected
            # calculatedStudentMetrics.totalLessons

\* the level the claims speak of: the most specific selected filter level
ChosenLevel ==
  IF selectedChapterId # Null THEN "Chapter"
  ELSE IF selectedCourseId # Null THEN "Course"
  ELSE IF selectedCollectionId # Null THEN "Collection"
  ELSE IF selectedCurriculumId # Null THEN "Curriculum"
  ELSE "None"
\* the scope: cohort-scoped iff a cohort is selected and the cohort aggregate
\* table is not empty
ChosenCohortScope == selectedCohortId # Null /\ cohortAggregates # << >>
ChosenTable ==
  CASE ChosenLevel = "Chapter" ->
         IF ChosenCohortScope THEN cohortChapterAggregates ELSE chapterAggregates
    [] ChosenLevel = "Course" ->
         IF ChosenCohortScope THEN cohortCourseAggregates ELSE courseAggregates
    [] ChosenLevel = "Collection" ->
         IF ChosenCohortScope THEN cohortCollectionAggregates
                              ELSE collectionAggregates
    [] ChosenLevel = "Curriculum" ->
         IF ChosenCohortScope THEN cohortCurriculumAggregates
                              ELSE curriculumAggregates
    [] OTHER -> IF ChosenCohortScope THEN cohortAggregates ELSE schoolAggregates
\* whether a row of the chosen table is a row for the selected id
IsChosenRow(row) ==
  CASE ChosenLevel = "Chapter" -> row.chapter_id = selectedChapterId
    [] ChosenLevel = "Course" -> row.course_id = selectedCourseId
    [] ChosenLevel = "Collection" -> row.collection_id = selectedCollectionId
    [] ChosenLevel = "Curriculum" -> row.curriculum_id = selectedCurriculumId
    [] OTHER -> IF ChosenCohortScope THEN row.cohort_id = selectedCohortId ELSE TRUE
ChosenRows == {i \in DOMAIN ChosenTable : IsChosenRow(ChosenTable[i])}
\* "<Level>: <name>" of a row of the chosen table
ChosenTitle(row) ==
  CASE ChosenLevel = "Chapter" -> "Chapter: " \o row.chapter_name
    [] ChosenLevel = "Course" -> "Course: " \o row.course_name
    [] ChosenLevel = "Collection" -> "Collection: " \o row.collection_name
    [] ChosenLevel = "Curriculum" -> "Curriculum: " \o row.curriculum_name
    [] OTHER -> IF ChosenCohortScope THEN "Cohort: " \o row.cohort_name
                ELSE "School: " \o row.school_name
\* the resolver's result is this row, renamed
IsResultOf(row) ==
  /\ currentAggregate # NoResult
  /\ currentAggregate.totalLessons = row.total_lessons_expected
  /\ currentAggregate.totalCompleted = row.total_lessons_completed
  /\ currentAggregate.requiredLessons = row.required_lessons_expected
  /\ currentAggregate.requiredCompleted = row.required_lessons_completed
  /\ currentAggregate.title = ChosenTitle(row)

\* C7: when no student metrics apply and a filter id is set, and the table of
\* the most specific selected level in the chosen scope (cohort-scoped iff a
\* cohort is selected and the cohort aggregate table is non-empty) holds a row
\* with the selected id, the resolver's result is such a row with its fields
\* renamed and the title "<Level>: <name>".
C7_ResolverLevelAndScope ==
  (~StudentMetricsApply /\ ChosenLevel # "None" /\ ChosenRows # {})
  => \E i \in ChosenRows : IsResultOf(ChosenTable[i])

\* a course-level row of the cohort scope is shown while the curriculum and
\* collection are set as well and the school scope has another row for the
\* same course
C7_Witness ==
  /\ ~StudentMetricsApply
  /\ ChosenLevel = "Course"
  /\ ChosenCohortScope
  /\ ChosenRows # {}
  /\ \E i \in DOMAIN courseAggregates :
       /\ courseAggregates[i].course_id = selectedCourseId
       /\ ~IsResultOf(courseAggregates[i])

\* school A is loaded: its school-wide row and a non-empty cohort aggregate
\* table are held, and neither a student nor a filter is selected
SchoolLoadedNoFilter ==
  /\ selectedSchoolId # Null
  /\ Len(schoolAggregates) > 0
  /\ schoolAggregates[1].school_id = selectedSchoolId
  /\ cohortAggregates # << >>
  /\ \A i \in DOMAIN cohortAggregates :
       cohortAggregates[i].school_id = selectedSchoolId
  /\ ChosenLevel = "None"
  /\ selectedStudentId = Null

\* the resolver's result is the cohort-level row of cohort c
IsCohortRowOf(c) ==
  \E i \in DOMAIN cohortAggregates :
    /\ cohortAggregates[i].cohort_id = c
    /\ currentAggregate # NoResult
    /\ currentAggregate.totalLessons = cohortAggregates[i].total_lessons_expected
    /\ currentAggregate.totalCompleted
         = cohortAggregates[i].total_lessons_completed
    /\ currentAggregate.requiredLessons
         = cohortAggregates[i].required_lessons_expected
    /\ currentAggregate.requiredCompleted
         = cohortAggregates[i].required_lessons_completed
    /\ currentAggregate.title = "Cohort: " \o cohortAggregates[i].cohort_name
\* the resolver's result is the school-wide row
IsSchoolRow ==
  /\ currentAggregate # NoResult
  /\ currentAggregate.totalLessons = schoolAggregates[1].total_lessons_expected
  /\ currentAggregate.totalCompleted = schoolAggregates[1].total_lessons_completed
  /\ currentAggregate.requiredLessons
       = schoolAggregates[1].required_lessons_expected
  /\ currentAggregate.requiredCompleted
       = schoolAggregates[1].required_lessons_completed
  /\ currentAggregate.title = "School: " \o schoolAggregates[1].school_name

\* C8: with school A loaded, no student and no filter selected and a non-empty
\* cohort aggregate table, a step selectCohort(C) for a cohort C of A leaves
\* the resolver at the cohort-level row of C, titled "Cohort: <name>", and not
\* at the school's row; a step selectCohort(null) leaves it at the school's row.
C8_CohortRoundTrip ==
  [][ \A c \in CohortIds \cup {Null} :
        (SchoolLoadedNoFilter /\ handleCohortSelection(c))
        => IF c = Null
             THEN IsSchoolRow'
             ELSE (\E i \in DOMAIN cohortAggregates :
                     cohortAggregates[i].cohort_id = c)
                  => (IsCohortRowOf(c)' /\ ~IsSchoolRow')
    ]_vars

\* a cohort of the loaded school is selected and the resolver shows its row
C8_Witness ==
  /\ SchoolLoadedNoFilter
  /\ selectedCohortId # Null
  /\ IsCohortRowOf(selectedCohortId)
  /\ ~IsSchoolRow

\* C9: when no student metrics apply and the table chosen by level and scope
\* has no row for the selected id (or is empty), the resolver's result is the
\* null "no data" result, not a row of a coarser level or of the school, and
\* the display shows the empty state.
C9_MissingRowGivesNoData ==
  (~StudentMetricsApply /\ ChosenRows = {})
  => /\ currentAggregate = NoResult
     /\ displayData = NoDataFallback
     /\ showsEmptyState

\* a course is selected for which the cohort scope has no row, while the
\* school-wide row and rows of the coarser levels are held
C9_Witness ==
  /\ ~StudentMetricsApply
  /\ selectedSchoolId # Null
  /\ ChosenLevel = "Course"
  /\ ChosenCohortScope
  /\ ChosenRows = {}
  /\ Len(schoolAggregates) > 0
  /\ \E i \in DOMAIN cohortCollectionAggregates :
       cohortCollectionAggregates[i].collection_id = selectedCollectionId

(***************************************************************************)
(* Claim C10: the per-student aggregator.                                  *)
(***************************************************************************)
\* the record passes the one filter that counts
PassesMostSpecificFilter(lesson) ==
  IF selectedChapterId # Null THEN lesson.chapter_id = selectedChapterId
  ELSE IF selectedCourseId # Null THEN lesson.course_id = selectedCourseId
  ELSE IF selectedCollectionId # Null
    THEN lesson.collection_id = selectedCollectionId
  ELSE IF selectedCurriculumId # Null
    THEN lesson.curriculum_id = selectedCurriculumId
  ELSE TRUE
PassingRecords ==
  {i \in DOMAIN individualStudentData.rows :
     PassesMostSpecificFilter(individualStudentData.rows[i])}

\* C10: for every record sequence and every combination of the four filter
\* ids, the four counts of the metrics are the numbers of records (all,
\* completed, required, required and completed) that pass the most specific
\* set filter alone; the result is non-null, with four zeros when no record
\* passes.
C10_MetricsUseMostSpecificFilter ==
  (selectedStudentId # Null /\ individualStudentData.isArray)
  => /\ calculatedStudentMetrics # NoResult
     /\ calculatedStudentMetrics.totalLessons = Cardinality(PassingRecords)
     /\ calculatedStudentMetrics.totalCompleted
          = Cardinality({i \in PassingRecords :
                           individualStudentData.rows[i].completion_date # Null})
     /\ calculatedStudentMetrics.requiredLessons
          = Cardinality({i \in PassingRecords :
                           individualStudentData.rows[i].is_required})
     /\ calculatedStudentMetrics.requiredCompleted
          = Cardinality({i \in PassingRecords :
                           /\ individualStudentData.rows[i].is_required
                           /\ individualStudentData.rows[i].completion_date # Null})

\* a chapter and a curriculum are both set, a record of the chapter that
\* belongs to another curriculum is counted and another record is not
C10_Witness ==
  /\ selectedChapterId # Null
  /\ selectedCurriculumId # Null
  /\ \E i \in PassingRecords :
       individualStudentData.rows[i].curriculum_id # selectedCurriculumId
  /\ PassingRecords # DOMAIN individualStudentData.rows

(***************************************************************************)
(* C11  The grouping aggregates of the selected student: at each of the    *)
(* levels collection, course and chapter there is exactly one entry per    *)
(* distinct id occurring in the lesson records, its total_lessons is the   *)
(* number of records carrying that id and its completed_lessons the number *)
(* of those with a non-null completion_date, whatever the order of the     *)
(* records and whatever the four filter ids.                               *)
(***************************************************************************)
RecordsWith(idKey, id) ==
  { j \in 1..Len(individualStudentData.rows) :
      individualStudentData.rows[j][idKey] = id }

GroupingIsPerId(grouping, idKey) ==
  /\ \A id \in { individualStudentData.rows[j][idKey] :
                   j \in 1..Len(individualStudentData.rows) } :
       Cardinality({ k \in 1..Len(grouping) : grouping[k][idKey] = id }) = 1
  /\ \A k \in 1..Len(grouping) :
       /\ RecordsWith(idKey, grouping[k][idKey]) # {}
       /\ grouping[k].total_lessons
            = Cardinality(RecordsWith(idKey, grouping[k][idKey]))
       /\ grouping[k].completed_lessons
            = Cardinality({ j \in RecordsWith(idKey, grouping[k][idKey]) :
                              individualStudentData.rows[j].completion_date # Null })

C11_GroupingsHaveOneEntryPerId ==
  (selectedStudentId # Null /\ individualStudentData.isArray)
    => /\ GroupingIsPerId(perStudentAggregates.collectionAggregates, "collection_id")
       /\ GroupingIsPerId(perStudentAggregates.courseAggregates, "course_id")
       /\ GroupingIsPerId(perStudentAggregates.chapterAggregates, "chapter_id")

(***************************************************************************)
(* C12  Percentage safety: for every displayed result the total percentage *)
(* is 100 * totalCompleted / totalLessons rounded to the nearest integer   *)
(* (halves up) when totalLessons > 0 and is 0 when totalLessons = 0, and   *)
(* likewise the required percentage of requiredCompleted and               *)
(* requiredLessons.                                                        *)
(***************************************************************************)
\* p is num / den rounded to the nearest integer, halves up
IsRounded(p, num, den) ==
  /\ 2 * den * p <= 2 * num + den
  /\ 2 * num + den < 2 * den * (p + 1)

C12_PercentagesAreRounded ==
  /\ IF displayData.totalLessons > 0
       THEN IsRounded(totalPercentage,
                      100 * displayData.totalCompleted, displayData.totalLessons)
       ELSE totalPercentage = 0
  /\ IF displayData.requiredLessons > 0
       THEN IsRounded(requiredPercentage,
                      100 * displayData.requiredCompleted, displayData.requiredLessons)
       ELSE requiredPercentage = 0

(***************************************************************************)
(* C13  Every step of the cohort handler, called with a cohort id or with  *)
(* null, sets the selected cohort id to its argument, sets the selected    *)
(* student id to null and clears the lesson records, and leaves the        *)
(* selected school id and the four filter ids as they were.                *)
(***************************************************************************)
C13_SelectCohortFrame ==
  [][ \A c \in CohortIds \cup {Null} :
        handleCohortSelection(c)
        => /\ selectedCohortId' = c
           /\ selectedStudentId' = Null
           /\ individualStudentData' = NullData
           /\ selectedSchoolId' = selectedSchoolId
           /\ selectedCurriculumId' = selectedCurriculumId
           /\ selectedCollectionId' = selectedCollectionId
           /\ selectedCourseId' = selectedCourseId
           /\ selectedChapterId' = selectedChapterId
    ]_vars

\* a cohort is selected under a school with all four filters set, no student
\* is selected and no records are held, after records had been requested
C13_Witness ==
  /\ selectedSchoolId # Null
  /\ selectedCohortId # Null
  /\ selectedChapterId # Null
  /\ selectedStudentId = Null
  /\ individualStudentData = NullData
  /\ \E u \in StudentIds : pendingLessons[u] > 0

(***************************************************************************)
(* C14  Student-list round trip: while the bundle of the selected school   *)
(* is held, a step selectCohort(c) leaves the student list equal to the    *)
(* students of the pre-fetched cohort-student rows whose cohort_id is c,   *)
(* and a step selectCohort(null) leaves it equal to the school-wide        *)
(* student rows, the list installed when the bundle was loaded.            *)
(***************************************************************************)
\* the tables held are the ones of the selected school's bundle
BundleHeld ==
  /\ selectedSchoolId # Null
  /\ schoolAggregates = BundleOf(selectedSchoolId).schoolAggregate
  /\ cohortAggregates = BundleOf(selectedSchoolId).cohortAggregate
  /\ cohortStudentAggregates = BundleOf(selectedSchoolId).cohortStudentAggregate

\* the list bundleResolved installs for the selected school
SchoolWideStudents ==
  toStudents(BundleOf(selectedSchoolId).schoolStudentAggregate)

CohortStudents(c) ==
  toStudents(SelectSeq(BundleOf(selectedSchoolId).cohortStudentAggregate,
                       LAMBDA row : row.cohort_id = c))

C14_StudentListRoundTrip ==
  [][ \A c \in CohortIds \cup {Null} :
        (BundleHeld /\ handleCohortSelection(c))
        => IF c = Null
             THEN studentsForSelector' = SchoolWideStudents
             ELSE studentsForSelector' = CohortStudents(c)
    ]_vars

(***************************************************************************)
(* C15  Stale school bundle: when selectSchool(A) is followed by           *)
(* selectSchool(B) before A's response, then whatever the arrival order,   *)
(* once both responses have arrived the held aggregate tables, the cohort  *)
(* list and the student list are those of B.  As a property of the steps:  *)
(* the arrival of the selected school's bundle leaves that school's data   *)
(* held, and the arrival of another school's bundle does not replace the   *)
(* selected school's data once they are held.                              *)
(***************************************************************************)
\* the aggregate tables and the cohort list held are those of the selected
\* school
SelectedSchoolsDataHeld ==
  LET bundle == BundleOf(selectedSchoolId) IN
  /\ selectedSchoolId # Null
  /\ schoolAggregates = bundle.schoolAggregate
  /\ curriculumAggregates = bundle.curriculumAggregate
  /\ collectionAggregates = bundle.schoolCollectionAggregate
  /\ courseAggregates = bundle.schoolCourseAggregate
  /\ chapterAggregates = bundle.schoolChapterAggregate
  /\ cohortAggregates = bundle.cohortAggregate
  /\ cohortCurriculumAggregates = bundle.cohortCurriculumAggregate
  /\ cohortCollectionAggregates = bundle.cohortCollectionAggregate
  /\ cohortCourseAggregates = bundle.cohortCourseAggregate
  /\ cohortChapterAggregates = bundle.cohortChapterAggregate
  /\ cohortStudentAggregates = bundle.cohortStudentAggregate
  /\ cohorts = CohortsOf(selectedSchoolId)

C15_StaleBundleNeverOverwrites ==
  [][ \A a \in SchoolIds :
        (selectedSchoolId # Null /\ bundleResolved(a))
        => IF a = selectedSchoolId
             THEN /\ SelectedSchoolsDataHeld'
                  /\ studentsForSelector' = SchoolWideStudents'
             ELSE SelectedSchoolsDataHeld
                  => /\ SelectedSchoolsDataHeld'
                     /\ studentsForSelector' = studentsForSelector
    ]_vars

(***************************************************************************)
(* C16  Access denied: a selectSchool(id) call of a user who may not       *)
(* access the school leaves the selected school, cohort, student and       *)
(* filter ids, the held aggregate tables and the lesson records exactly as *)
(* they were, issues no bundle fetch, and sets an error message.  The call *)
(* is two steps, the one that starts the access check and the one that     *)
(* receives the denial; both are covered.                                  *)
(***************************************************************************)
C16_AccessDeniedChangesNothing ==
  [][ \A id \in SchoolIds :
        /\ (currentUser = "guest" /\ handleSchoolSelection(id))
           => UNCHANGED <<entityVars, filterVars, schoolTables, cohortTables,
                          individualStudentData, pendingBundle>>
        /\ accessCheckSettled(id, FALSE)
           => /\ UNCHANGED <<entityVars, filterVars, schoolTables, cohortTables,
                             individualStudentData, pendingBundle>>
              /\ error' # NoError
    ]_vars

\* the denial is on display while another school's data, a cohort, a student
\* with records and a filter are still selected and held
C16_Witness ==
  /\ error = "You do not have permission to access this school"
  /\ SelectedSchoolsDataHeld
  /\ selectedCohortId # Null
  /\ selectedStudentId # Null
  /\ individualStudentData.isArray
  /\ selectedCurriculumId # Null
  /\ InFlightTotal = 0

(***************************************************************************)
(* C17  Fetch failure keeps loaded data: the step in which the bundle      *)
(* fetch of selectSchool fails, and the step in which the lesson fetch of  *)
(* selectStudent fails, set an error string and leave the held aggregate   *)
(* tables, the cohort list, the student list and the lesson records        *)
(* unchanged.                                                              *)
(***************************************************************************)
C17_FetchFailureKeepsData ==
  [][ /\ \A id \in SchoolIds :
           bundleRejected(id)
           => /\ error' # NoError
              /\ UNCHANGED <<schoolTables, cohortTables, cohorts,
                             studentsForSelector, individualStudentData>>
      /\ \A id \in StudentIds :
           lessonsRejected(id)
           => /\ error' # NoError
              /\ UNCHANGED <<schoolTables, cohortTables, cohorts,
                             studentsForSelector, individualStudentData>>
    ]_vars

\* a bundle fetch has failed while tables, a cohort list, a student list and
\* lesson records loaded earlier are held
C17_Witness ==
  /\ error = "Failed to load school data"
  /\ schoolAggregates # << >>
  /\ cohortAggregates # << >>
  /\ cohorts # << >>
  /\ studentsForSelector # << >>
  /\ individualStudentData.isArray
  /\ InFlightTotal = 0

(***************************************************************************)
(* C18  selectSchool(null) issues no fetch and clears all dependent state: *)
(* after the step the school, cohort and student ids are null, the lesson  *)
(* records are null, the cohort list and the student list are empty, and   *)
(* the six school-scoped and the six cohort-scoped aggregate tables are    *)
(* empty.                                                                  *)
(***************************************************************************)
C18_DeselectSchoolClearsAll ==
  [][ handleSchoolSelection(Null)
      => /\ UNCHANGED <<pendingAccess, pendingBundle, pendingLessons>>
         /\ selectedSchoolId' = Null
         /\ selectedCohortId' = Null
         /\ selectedStudentId' = Null
         /\ individualStudentData' = NullData
         /\ cohorts' = << >>
         /\ studentsForSelector' = << >>
         /\ \A i \in 1..6 : schoolTables'[i] = << >>
         /\ \A i \in 1..6 : cohortTables'[i] = << >>
    ]_vars

(***************************************************************************)
(* C19  Mutators never fail: when the bundle fetch or the lesson fetch     *)
(* fails, selectSchool or selectStudent still completes normally and the   *)
(* failure is reported through the error state only; in no reachable state *)
(* has an exception or a promise rejection escaped a mutator.              *)
(***************************************************************************)
C19_NoRejectionEscapes == unhandledRejection = FALSE

(***************************************************************************)
(* C20  Malformed or empty lesson data: when a student is selected and the *)
(* lesson data held for that student are empty or are not a sequence of    *)
(* records, the aggregator treats them as zero records: the filtered       *)
(* metrics are a non-null result whose four counts are 0, and the three    *)
(* grouping aggregates are empty.                                          *)
(***************************************************************************)
EmptyOrMalformed ==
  \/ individualStudentData = ArrayData(<< >>)
  \/ individualStudentData = NotAnArray

C20_EmptyOrMalformedIsZeroRecords ==
  (selectedStudentId # Null /\ EmptyOrMalformed)
  => /\ calculatedStudentMetrics # NoResult
     /\ calculatedStudentMetrics.totalLessons = 0
     /\ calculatedStudentMetrics.totalCompleted = 0
     /\ calculatedStudentMetrics.requiredLessons = 0
     /\ calculatedStudentMetrics.requiredCompleted = 0
     /\ perStudentAggregates.collectionAggregates = << >>
     /\ perStudentAggregates.courseAggregates = << >>
     /\ perStudentAggregates.chapterAggregates = << >>

(***************************************************************************)
(* C21  No student means no records: in every reachable state, also after  *)
(* the response of an earlier lesson fetch has arrived, a null selected    *)
(* student id implies that no lesson records are held.                     *)
(***************************************************************************)
C21_NoStudentNoRecords ==
  selectedStudentId = Null => individualStudentData = NullData

(***************************************************************************)
(* C22  Held records belong to the selected student: in every reachable    *)
(* state in which a student is selected and lesson records are held (so    *)
(* that student metrics are computed and shown for that student), the      *)
(* records are the ones fetched for the selected student.                  *)
(***************************************************************************)
C22_ShownRecordsAreOfSelectedStudent ==
  (selectedStudentId # Null /\ calculatedStudentMetrics # NoResult)
  => individualStudentData = ArrayData(LessonsOf(selectedStudentId))

(***************************************************************************)
(* C23  Cohort-scoped resolution stays inside the selected cohort: when a  *)
(* cohort is selected, the cohort aggregate table is non-empty, a filter   *)
(* level is selected and no student metrics apply, the row the resolver    *)
(* takes from the cohort-scoped table of that level, if any, has the       *)
(* cohort_id of the selected cohort.                                       *)
(***************************************************************************)
C23_CohortRowIsOfSelectedCohort ==
  ( /\ selectedCohortId # Null
    /\ Len(cohortAggregates) > 0
    /\ \/ selectedCurriculumId # Null
       \/ selectedCollectionId # Null
       \/ selectedCourseId # Null
       \/ selectedChapterId # Null
    /\ selectedStudentId = Null
    /\ aggregateData # Undefined )
  => aggregateData.cohort_id = selectedCohortId

(***************************************************************************)
(* C24  No school means no data: in every reachable state in which the     *)
(* selected school id is null (initially, after selectSchool(null), after  *)
(* logout, after a bundle arrives for a school deselected meanwhile) the   *)
(* resolver yields the null result, so no aggregate row is displayed.      *)
(***************************************************************************)
C24_NoSchoolNoData ==
  selectedSchoolId = Null
  => /\ currentAggregate = NoResult
     /\ displayData = NoDataFallback

(***************************************************************************)
(* C25  Selection stays inside the selected school: in every reachable     *)
(* state a non-null selected cohort id is the id of a cohort of the        *)
(* selected school and a non-null selected student id is the id of a       *)
(* student of the selected school, also when the cohort or the student is  *)
(* picked while the bundle of a newly selected school is loading.          *)
(***************************************************************************)
C25_SelectionInsideSchool ==
  /\ selectedCohortId # Null
       => selectedCohortId \in Ids(CohortsOf(selectedSchoolId))
  /\ selectedStudentId # Null
       => \E i \in DOMAIN StudentRowsOf(selectedSchoolId) :
            StudentRowsOf(selectedSchoolId)[i].student_id = selectedStudentId

(***************************************************************************)
(* C26  Displayed school row is the selected school's: in every reachable  *)
(* state with a school selected and no cohort, no student and no filter    *)
(* selected, a row returned by the resolver was fetched for the selected   *)
(* school (it is the school-wide row of that school's bundle), also while  *)
(* the bundle of a newly selected school is loading and after its fetch    *)
(* has failed.                                                             *)
(***************************************************************************)
C26_SchoolRowIsOfSelectedSchool ==
  ( /\ selectedSchoolId # Null
    /\ selectedCohortId = Null
    /\ selectedStudentId = Null
    /\ ChosenLevel = "None"
    /\ currentAggregate # NoResult )
  => /\ aggregateData.school_id = selectedSchoolId
     /\ aggregateData = BundleOf(selectedSchoolId).schoolAggregate[1]

(***************************************************************************)
(* C27  Filter-option annotation for a selected student: while a student   *)
(* is selected and their records are loaded, the number shown next to each *)
(* collection, course and chapter option is the number of that student's   *)
(* records of the entity that have a completion date, and 0 when the       *)
(* student has no record of the entity.                                    *)
(***************************************************************************)
CompletedRecords(idKey, id) ==
  Cardinality({ j \in RecordsWith(idKey, id) :
                  individualStudentData.rows[j].completion_date # Null })

C27_OptionAnnotationIsCompletedCount ==
  (filtersRendered /\ selectedStudentId # Null /\ individualStudentData.isArray)
  => /\ \A id \in collections :
          getCollectionCompleted(id) = Number(CompletedRecords("collection_id", id))
     /\ \A id \in courses :
          getCourseCompleted(id) = Number(CompletedRecords("course_id", id))
     /\ \A id \in chapters :
          getChapterCompleted(id) = Number(CompletedRecords("chapter_id", id))

(***************************************************************************)
(* C28  The display layer agrees with the resolver: in every reachable     *)
(* state the data ProgressChart renders equal the resolver's output        *)
(* whenever that output is non-null, and are the zero-valued "No Data      *)
(* Available" fallback exactly when the resolver's output is null.         *)
(***************************************************************************)
C28_DisplayAgreesWithResolver ==
  /\ currentAggregate # NoResult => displayData = currentAggregate
  /\ displayData = NoDataFallback <=> currentAggregate = NoResult

\* student metrics are displayed although the aggregate tables have a row for
\* the selection, and they differ from that row
C28_Witness ==
  /\ StudentMetricsApply
  /\ aggregateData # Undefined
  /\ displayData = calculatedStudentMetrics
  /\ displayData # formattedAggregate

(***************************************************************************)
(* C29  Bounds of the computed student metrics: for every record sequence  *)
(* and every filter state the filtered student metrics satisfy             *)
(* 0 <= requiredCompleted <= requiredLessons <= totalLessons and           *)
(* requiredCompleted <= totalCompleted <= totalLessons, and both           *)
(* percentages derived from them lie in 0..100.                            *)
(***************************************************************************)
C29_StudentMetricsBounds ==
  calculatedStudentMetrics # NoResult
  => /\ 0 <= calculatedStudentMetrics.requiredCompleted
     /\ calculatedStudentMetrics.requiredCompleted
          <= calculatedStudentMetrics.requiredLessons
     /\ calculatedStudentMetrics.requiredLessons
          <= calculatedStudentMetrics.totalLessons
     /\ calculatedStudentMetrics.requiredCompleted
          <= calculatedStudentMetrics.totalCompleted
     /\ calculatedStudentMetrics.totalCompleted
          <= calculatedStudentMetrics.totalLessons
     /\ displayData = calculatedStudentMetrics
     /\ totalPercentage \in 0..100
     /\ requiredPercentage \in 0..100

\* a filter is set and the four counts are not all equal: two records pass,
\* both completed, one of them required
C29_Witness ==
  /\ selectedCourseId # Null
  /\ calculatedStudentMetrics # NoResult
  /\ calculatedStudentMetrics.totalLessons = 2
  /\ calculatedStudentMetrics.totalCompleted = 2
  /\ calculatedStudentMetrics.requiredLessons = 1
  /\ calculatedStudentMetrics.requiredCompleted = 1
  /\ totalPercentage = 100
  /\ Len(individualStudentData.rows) = 2

(***************************************************************************)
(* C30  The school loading flag is released: after selectSchool(id) has    *)
(* set the loading flag, once its bundle fetch has completed, with success *)
(* or with a failure, and no other load is outstanding, the loading flag   *)
(* is eventually false again.  With no request outstanding no continuation *)
(* of a handler is left to run, so the flag has to be false in every state *)
(* without a request in flight.                                            *)
(***************************************************************************)
C30_LoadingReleasedWhenIdle ==
  InFlightTotal = 0 => loading = FALSE

====
